---- MODULE Spec2Model ----
(***************************************************************************)
(* A model of pdf_to_md.py: the title classifier, the per-page font        *)
(* statistics, the text normaliser, the paragraph/heading assembler, the   *)
(* table transcriber, the page loop of convert_pdf_to_md and the batch     *)
(* driver process_input_directory.                                         *)
(*                                                                         *)
(* A Python str is modelled as a sequence of characters; a character is a  *)
(* one-element token.  Characters outside ASCII are written as tokens:     *)
(*   "DI" U+7B2C  "ZHANG" U+7AE0  "CN1".."CN10" U+4E00.. (the ten CJK      *)
(*   numerals of the patterns)  "O1".."O10" U+2460..U+2469 (circled        *)
(*   digits)  "FLP" U+FF08  "FRP" U+FF09  "DUN" U+3001  "FCOLON" U+FF1A    *)
(*   "FCOMMA" U+FF0C  "JU" U+3002  "FEXCL" U+FF01  "FQUES" U+FF1F          *)
(*   "FSEMI" U+FF1B, and "ZONG" "ZE" "BEN" "GUI" "DING" "LE" "JI" "YUAN"   *)
(*   for the other ideographs of the sample sentences.                     *)
(* Font sizes are whole numbers of points.                                 *)
(***************************************************************************)
EXTENDS Integers, Sequences, FiniteSets, TLC

VARIABLES
    pc,               \* position of the operation under analysis
    text,             \* get_title_level / clean_text: the text argument
    font_info,        \* get_title_level: the font_info argument
    font_percentiles, \* get_title_level / process_text_objects: page percentiles
    title_level,      \* get_title_level: the returned level
    cleaned,          \* clean_text: results of the successive applications
    words,            \* page.extract_words(): the page's word objects
    next_word,        \* process_text_objects: index of the next word of the loop
    text_objects,     \* process_text_objects: emitted blocks
    current_paragraph,\* process_text_objects: paragraph accumulator
    current_font,     \* process_text_objects: font of the accumulator's opener
    markdown_text,    \* convert_to_markdown(text_objects)
    raw_tables,       \* page.extract_tables()
    tables,           \* extract_tables(page): the combined string
    pdf_files,        \* process_input_directory: number of discovered files
    file_idx,         \* process_input_directory: index of the file in hand
    total_pages,      \* convert_pdf_to_md: len(pdf.pages)
    page_num,         \* convert_pdf_to_md: loop variable
    md_file,          \* convert_pdf_to_md: the writes made to the output file
    page_log,         \* history: what each page of the file in hand produced
    attempts,         \* history: convert_pdf_to_md calls, in order
    printed           \* messages printed by the except clauses

vars == << pc, text, font_info, font_percentiles, title_level, cleaned, words,
           next_word, text_objects, current_paragraph, current_font,
           markdown_text, raw_tables, tables, pdf_files, file_idx, total_pages,
           page_num, md_file, page_log, attempts, printed >>

titleVars == << text, font_info, font_percentiles, title_level >>
asmVars   == << words, next_word, text_objects, current_paragraph,
                current_font, markdown_text >>
tableVars == << raw_tables, tables >>
batchVars == << pdf_files, file_idx, total_pages, page_num, md_file,
                page_log, attempts, printed >>

(* Python's None. *)
None == [is_none |-> TRUE]

----------------------------------------------------------------------------
(* Strings *)

Whitespace == {" ", "\t", "\n", "\r", "\f"}

RECURSIVE lstrip(_)
lstrip(s) ==
    IF s # <<>> /\ Head(s) \in Whitespace THEN lstrip(Tail(s)) ELSE s

RECURSIVE rstrip(_)
rstrip(s) ==
    IF s # <<>> /\ s[Len(s)] \in Whitespace
    THEN rstrip(SubSeq(s, 1, Len(s) - 1))
    ELSE s

(* str.strip() *)
strip(s) == rstrip(lstrip(s))

(* sep.join(parts) *)
RECURSIVE join(_, _)
join(sep, parts) ==
    IF parts = <<>> THEN <<>>
    ELSE IF Len(parts) = 1 THEN parts[1]
    ELSE parts[1] \o sep \o join(sep, Tail(parts))

(* s.endswith(c) for a one-character c *)
endswith(s, c) == s # <<>> /\ s[Len(s)] = c

(* c * n *)
RECURSIVE repeat(_, _)
repeat(c, n) == IF n = 0 THEN <<>> ELSE <<c>> \o repeat(c, n - 1)

----------------------------------------------------------------------------
(* Title classifier: CHAPTER_KEYWORDS, is_semantic_title, get_title_level *)

CJKNumerals == {"CN1", "CN2", "CN3", "CN4", "CN5", "CN6", "CN7", "CN8", "CN9", "CN10"}
Digits      == {"0", "1", "2", "3", "4", "5", "6", "7", "8", "9"}
Upper       == {"A", "B", "C", "D", "E", "F", "G", "H", "I", "J", "K", "L", "M",
                "N", "O", "P", "Q", "R", "S", "T", "U", "V", "W", "X", "Y", "Z"}
Lower       == {"a", "b", "c", "d", "e", "f", "g", "h", "i", "j", "k", "l", "m",
                "n", "o", "p", "q", "r", "s", "t", "u", "v", "w", "x", "y", "z"}
Circled     == {"O1", "O2", "O3", "O4", "O5", "O6", "O7", "O8", "O9", "O10"}
OpenParen   == {"FLP", "("}
CloseParen  == {")", "FRP"}
DotOrDun    == {".", "DUN"}

(* s[i] is a character of class; i is a 1-based position. *)
At(s, i, class) == i <= Len(s) /\ s[i] \in class

(* X+ at position i followed by a character of class follow:
   some k >= 1 characters of X, then one of follow. *)
PlusThen(s, i, X, follow) ==
    \E k \in 1..Len(s) :
        /\ \A j \in i..(i + k - 1) : At(s, j, X)
        /\ At(s, i + k, follow)

CHAPTER_KEYWORDS ==
    << "chapter", "cjk_list", "digit_list", "upper_list", "lower_list",
       "circled", "paren_cjk", "paren_digit" >>

(* re.match(pattern, s) for the eight patterns, all anchored at the start *)
re_match(pattern, s) ==
    CASE pattern = "chapter"     -> At(s, 1, {"DI"}) /\ PlusThen(s, 2, CJKNumerals, {"ZHANG"})
      [] pattern = "cjk_list"    -> PlusThen(s, 1, CJKNumerals, {"DUN"})
      [] pattern = "digit_list"  -> PlusThen(s, 1, Digits, DotOrDun)
      [] pattern = "upper_list"  -> At(s, 1, Upper) /\ At(s, 2, DotOrDun)
      [] pattern = "lower_list"  -> At(s, 1, Lower) /\ At(s, 2, DotOrDun)
      [] pattern = "circled"     -> At(s, 1, Circled)
      [] pattern = "paren_cjk"   -> At(s, 1, OpenParen) /\ At(s, 2, CJKNumerals)
                                    /\ At(s, 3, CloseParen)
      [] pattern = "paren_digit" -> At(s, 1, OpenParen)
                                    /\ PlusThen(s, 2, Digits, CloseParen)

ColonMaxLen == 50

(* The tail of is_semantic_title, after the pattern loop. *)
colon_rule(t) ==
    IF Len(t) < ColonMaxLen /\ endswith(t, "FCOLON")
    THEN [is_title |-> TRUE, level |-> 3]
    ELSE [is_title |-> FALSE, level |-> 0]

(* The if/elif chain run inside the loop for a pattern that matched. *)
level_chain(t) ==
    IF re_match("chapter", t) THEN 1
    ELSE IF re_match("cjk_list", t) THEN 2
    ELSE IF re_match("digit_list", t) THEN 2
    ELSE IF re_match("upper_list", t) THEN 3
    ELSE IF re_match("lower_list", t) THEN 3
    ELSE IF re_match("circled", t) THEN 3
    ELSE IF re_match("paren_cjk", t) THEN 4
    ELSE IF re_match("paren_digit", t) THEN 4
    ELSE 0

is_semantic_title(txt) ==
    IF txt = <<>> THEN [is_title |-> FALSE, level |-> 0]
    ELSE LET t == strip(txt)
         IN  IF /\ \E p \in 1..Len(CHAPTER_KEYWORDS) : re_match(CHAPTER_KEYWORDS[p], t)
                /\ level_chain(t) # 0
             THEN [is_title |-> TRUE, level |-> level_chain(t)]
             ELSE colon_rule(t)

(* A mutant of get_title_level: the font-size fallback is consulted first. *)
get_title_level_font_first(txt, font, pct) ==
    IF txt = <<>> THEN 0
    ELSE IF font # None /\ font.size # 0 /\ pct # None /\ font.size >= pct.h6
         THEN (IF font.size >= pct.h4 THEN 4
               ELSE IF font.size >= pct.h5 THEN 5 ELSE 6)
         ELSE is_semantic_title(txt).level

get_title_level(txt, font, pct) ==
    IF txt = <<>> THEN 0
    ELSE LET sem == is_semantic_title(txt)
         IN  IF sem.is_title THEN sem.level
             ELSE IF font # None /\ font.size # 0 /\ pct # None
                  THEN (IF font.size >= pct.h4 THEN 4
                        ELSE IF font.size >= pct.h5 THEN 5
                        ELSE IF font.size >= pct.h6 THEN 6
                        ELSE 0)
                  ELSE 0

----------------------------------------------------------------------------
(* Font information and per-page font statistics *)

(* str.lower() on the tokens a font name is made of *)
lower_token(tok) ==
    CASE tok = "Bold"    -> "bold"
      [] tok = "BLACK"   -> "black"
      [] tok = "Italic"  -> "italic"
      [] tok = "Oblique" -> "oblique"
      [] tok = "Arial"   -> "arial"
      [] OTHER           -> tok

lower(name) == [i \in 1..Len(name) |-> lower_token(name[i])]

(* needle in name *)
contains(name, needle) == \E i \in 1..Len(name) : name[i] = needle

(* dict.get(key, default) *)
get(dict, key, default) == IF key \in DOMAIN dict THEN dict[key] ELSE default

(* A word object is never an empty dict, so the "if not text_obj" branch
   returns None only for the empty object. *)
EmptyObj == << >>

get_font_info(text_obj) ==
    IF text_obj = EmptyObj THEN None
    ELSE LET font_name == lower(get(text_obj, "fontname", <<>>))
             font_size == get(text_obj, "size", 0)
         IN  [ name      |-> font_name,
               size      |-> font_size,
               is_bold   |-> contains(font_name, "bold") \/ contains(font_name, "black"),
               is_italic |-> contains(font_name, "italic") \/ contains(font_name, "oblique") ]

(* list.sort() of numbers, ascending *)
RECURSIVE insert_sorted(_, _)
insert_sorted(x, s) ==
    IF s = <<>> THEN <<x>>
    ELSE IF x <= Head(s) THEN <<x>> \o s
    ELSE <<Head(s)>> \o insert_sorted(x, Tail(s))

RECURSIVE sort(_)
sort(s) == IF s = <<>> THEN <<>> ELSE insert_sorted(Head(s), sort(Tail(s)))

IndexError == [raised |-> "IndexError"]

(* lst[i] for a 0-based i >= 0: the element, unless i is out of range *)
in_range(lst, i) == i < Len(lst)
index(lst, i) == lst[i + 1]

(* A mutant of percentile_index: the product is rounded up. *)
percentile_index_ceil(total, percent) == (total * percent + 99) \div 100

(* int(total * 0.95), int(total * 0.85), int(total * 0.75): percent is
   95, 85 or 75.  The float product truncates to the exact floor for every
   total up to 20000. *)
percentile_index(total, percent) == (total * percent) \div 100

(* The sizes collected by the first loop of analyze_page_font_sizes. *)
RECURSIVE collect_font_sizes(_)
collect_font_sizes(ws) ==
    IF ws = <<>> THEN <<>>
    ELSE LET fi == get_font_info(Head(ws))
         IN  (IF fi # None /\ fi.size > 0 THEN <<fi.size>> ELSE <<>>)
             \o collect_font_sizes(Tail(ws))

analyze_page_font_sizes(ws) ==
    LET font_sizes == sort(collect_font_sizes(ws))
        total == Len(font_sizes)
        i4 == percentile_index(total, 95)
        i5 == percentile_index(total, 85)
        i6 == percentile_index(total, 75)
    IN  IF total = 0 THEN None
        ELSE IF \E i \in {i4, i5, i6} : ~in_range(font_sizes, i) THEN IndexError
        ELSE [h4 |-> index(font_sizes, i4),
              h5 |-> index(font_sizes, i5),
              h6 |-> index(font_sizes, i6)]

----------------------------------------------------------------------------
(* Text normaliser: clean_text *)

Max(S) == CHOOSE x \in S : \A y \in S : y <= x

(* Every character of s[from..to] is of class (true of an empty range). *)
Run(s, from, to, class) == \A j \in from..to : s[j] \in class

(* re.sub(r'\n\s*\n\s*\n+', '\n\n', s).  A match at i is \n, then \s* up to
   a, \n at a+1, \s* up to b, then \n+ from b+1 to e; the greedy quantifiers
   take the longest a, then the longest b, then the longest e for which the
   rest still matches. *)
CollapseB(s, a) ==
    { b \in (a + 1)..(Len(s) - 1) : Run(s, a + 2, b, Whitespace) /\ s[b + 1] = "\n" }

CollapseA(s, i) ==
    { a \in i..(Len(s) - 1) :
        Run(s, i + 1, a, Whitespace) /\ s[a + 1] = "\n" /\ CollapseB(s, a) # {} }

CollapseEnd(s, i) ==
    LET a == Max(CollapseA(s, i))
        b == Max(CollapseB(s, a))
    IN  Max({ e \in (b + 1)..Len(s) : Run(s, b + 1, e, {"\n"}) })

RECURSIVE sub_blank_lines(_, _)
sub_blank_lines(s, i) ==
    IF i > Len(s) THEN <<>>
    ELSE IF s[i] = "\n" /\ CollapseA(s, i) # {}
    THEN <<"\n", "\n">> \o sub_blank_lines(s, CollapseEnd(s, i) + 1)
    ELSE <<s[i]>> \o sub_blank_lines(s, i + 1)

(* str.replace(old, new) for one-character old and new *)
replace(s, old, new) == [j \in 1..Len(s) |-> IF s[j] = old THEN new ELSE s[j]]

Terminal   == {"JU", "FEXCL", "FQUES", "FSEMI"}
SpaceOrTab == {" ", "\t"}

(* re.sub(r'([terminal])[ \t]*\n', r'\1\n\n', s): a match at i is a
   terminal mark, then [ \t]* up to a, then \n at a+1. *)
BreakA(s, i) ==
    { a \in i..(Len(s) - 1) : Run(s, i + 1, a, SpaceOrTab) /\ s[a + 1] = "\n" }

RECURSIVE sub_line_break(_, _)
sub_line_break(s, i) ==
    IF i > Len(s) THEN <<>>
    ELSE IF s[i] \in Terminal /\ BreakA(s, i) # {}
    THEN <<s[i], "\n", "\n">> \o sub_line_break(s, Max(BreakA(s, i)) + 2)
    ELSE <<s[i]>> \o sub_line_break(s, i + 1)

clean_text(txt) ==
    IF txt = <<>> THEN <<>>
    ELSE LET t1 == sub_blank_lines(txt, 1)
             t2 == replace(replace(t1, "FCOMMA", "FCOMMA"), "JU", "JU")
             t3 == replace(replace(t2, "FCOLON", "FCOLON"), "FSEMI", "FSEMI")
             t4 == sub_line_break(t3, 1)
         IN  strip(t4)

----------------------------------------------------------------------------
(* Document assembler: process_text_objects, format_text_with_style,
   convert_to_markdown *)

Paragraph == <<"p", "a", "r", "a", "g", "r", "a", "p", "h">>

(* str(n) and int(c) for one decimal digit *)
DigitChars == <<"0", "1", "2", "3", "4", "5", "6", "7", "8", "9">>
str(n) == DigitChars[n + 1]
int(c) == (CHOOSE n \in 1..Len(DigitChars) : DigitChars[n] = c) - 1

(* The dict appended when the accumulator is flushed. *)
paragraph_block(st) ==
    [ type      |-> Paragraph,
      text      |-> join(<<" ">>, st.current_paragraph),
      font_info |-> st.current_font ]

(* A mutant of loop_body: the accumulator's font follows the latest word. *)
loop_body_last_font(st, obj, pct) ==
    LET txt == obj.text
        fi  == get_font_info(obj)
        title == get_title_level(txt, fi, pct)
    IN  IF title > 0
        THEN [ text_objects |->
                   (IF st.current_paragraph # <<>>
                    THEN Append(st.text_objects, paragraph_block(st))
                    ELSE st.text_objects)
                   \o << [type |-> <<"h", str(title)>>, text |-> txt, font_info |-> fi] >>,
               current_paragraph |-> <<>>,
               current_font |-> st.current_font ]
        ELSE [ text_objects |-> st.text_objects,
               current_paragraph |-> Append(st.current_paragraph, txt),
               current_font |-> fi ]

(* One iteration of the loop of process_text_objects over word obj; st holds
   text_objects, current_paragraph and current_font. *)
loop_body(st, obj, pct) ==
    LET txt == obj.text
        fi  == get_font_info(obj)
        title == get_title_level(txt, fi, pct)
    IN  IF title > 0
        THEN [ text_objects |->
                   (IF st.current_paragraph # <<>>
                    THEN Append(st.text_objects, paragraph_block(st))
                    ELSE st.text_objects)
                   \o << [type |-> <<"h", str(title)>>, text |-> txt, font_info |-> fi] >>,
               current_paragraph |-> <<>>,
               current_font |-> st.current_font ]
        ELSE [ text_objects |-> st.text_objects,
               current_paragraph |-> Append(st.current_paragraph, txt),
               current_font |-> IF st.current_paragraph = <<>> THEN fi
                                ELSE st.current_font ]

(* A mutant of last_paragraph: the trailing accumulator is not flushed. *)
last_paragraph_dropped(st) == st.text_objects

(* The flush after the loop; the returned list. *)
last_paragraph(st) ==
    IF st.current_paragraph # <<>>
    THEN Append(st.text_objects, paragraph_block(st))
    ELSE st.text_objects

RECURSIVE run_loop(_, _, _)
run_loop(st, ws, pct) ==
    IF ws = <<>> THEN st ELSE run_loop(loop_body(st, Head(ws), pct), Tail(ws), pct)

process_text_objects(ws) ==
    last_paragraph(
        run_loop([text_objects |-> <<>>, current_paragraph |-> <<>>,
                  current_font |-> None],
                 ws, analyze_page_font_sizes(ws)))

format_text_with_style(txt, font) ==
    IF txt = <<>> THEN txt
    ELSE LET bold == IF font # None /\ font.is_bold
                     THEN <<"*", "*">> \o txt \o <<"*", "*">>
                     ELSE txt
         IN  IF font # None /\ font.is_italic THEN <<"*">> \o bold \o <<"*">>
             ELSE bold

(* The line convert_to_markdown appends for one block. *)
markdown_line(obj) ==
    IF obj.type[1] = "h"
    THEN repeat("#", int(obj.type[2])) \o <<" ">> \o obj.text \o <<"\n">>
    ELSE IF obj.type = Paragraph
    THEN format_text_with_style(obj.text, obj.font_info) \o <<"\n", "\n">>
    ELSE <<>>

RECURSIVE convert_to_markdown(_)
convert_to_markdown(objs) ==
    IF objs = <<>> THEN <<>>
    ELSE markdown_line(Head(objs)) \o convert_to_markdown(Tail(objs))

----------------------------------------------------------------------------
(* Table transcriber: extract_tables *)

(* A value that may be None (a cell, a row, a table): v is the string or
   list when it is not. *)
Missing == [is_none |-> TRUE, v |-> <<>>]
Some(x) == [is_none |-> FALSE, v |-> x]

(* "not x" for a string or list that may be None *)
falsy(x) == x.is_none \/ x.v = <<>>

(* str(cell) if cell else '' *)
cell_text(cell) == IF ~falsy(cell) THEN cell.v ELSE <<>>

(* '| ' + ' | '.join(...) + ' |' *)
piped(parts) == <<"|", " ">> \o join(<<" ", "|", " ">>, parts) \o <<" ", "|">>

row_line(row) == piped([ i \in 1..Len(row) |-> cell_text(row[i]) ])

(* A mutant of separator_line: one column per non-empty header cell. *)
separator_line_non_empty(header) ==
    piped([ i \in 1..Cardinality({ j \in 1..Len(header) : ~falsy(header[j]) })
              |-> <<"-", "-", "-">> ])

separator_line(header) ==
    piped([ i \in 1..Len(header) |-> <<"-", "-", "-">> ])

(* The body lines: rows is table[1:]. *)
RECURSIVE body_lines(_)
body_lines(rows) ==
    IF rows = <<>> THEN <<>>
    ELSE (IF falsy(Head(rows)) THEN <<>> ELSE << row_line(Head(rows).v) >>)
         \o body_lines(Tail(rows))

(* The loop over the tables: the list markdown_tables. *)
RECURSIVE markdown_tables(_)
markdown_tables(tbls) ==
    IF tbls = <<>> THEN <<>>
    ELSE LET table == Head(tbls)
         IN  (IF falsy(table) \/ falsy(table.v[1]) THEN <<>>
              ELSE << join(<<"\n">>,
                           << row_line(table.v[1].v), separator_line(table.v[1].v) >>
                           \o body_lines(Tail(table.v))) >>)
             \o markdown_tables(Tail(tbls))

extract_tables(tbls) ==
    IF falsy(tbls) THEN <<>>
    ELSE join(<<"\n", "\n">>, markdown_tables(tbls.v))

----------------------------------------------------------------------------
(* Page loop of convert_pdf_to_md and the except clauses *)

(* f"# {title}\n\n": the title of the idx-th file is written as its index. *)
title_line(idx) == <<"#", " ", str(idx), "\n", "\n">>

(* f"## DI {page_num + 1} YE\n\n", YE being U+9875; page_num is 0-based. *)
page_heading(num) == <<"#", "#", " ", "DI", " ", str(num + 1), " ", "YE", "\n", "\n">>

page_rule == <<"-", "-", "-", "\n", "\n">>

(* A mutant of page_writes: the page heading and rule are written for
   every page. *)
page_writes_unconditional(num, md_text, tbls) ==
    << page_heading(num) >>
    \o (IF md_text # <<>> THEN << md_text >> ELSE <<>>)
    \o (IF tbls # <<>> THEN << tbls \o <<"\n", "\n">> >> ELSE <<>>)
    \o << page_rule >>

(* Lines 287-300: the md_file.write calls made for one page. *)
page_writes(num, md_text, tbls) ==
    IF md_text # <<>> \/ tbls # <<>>
    THEN << page_heading(num) >>
         \o (IF md_text # <<>> THEN << md_text >> ELSE <<>>)
         \o (IF tbls # <<>> THEN << tbls \o <<"\n", "\n">> >> ELSE <<>>)
         \o << page_rule >>
    ELSE <<>>

(* Lines 304-306: the except clause of convert_pdf_to_md prints and
   re-raises. *)
convert_except(msgs, idx) ==
    Append(msgs, [kind |-> "convert_error", file |-> idx])

(* A mutant of batch_except: the exception is swallowed without a message. *)
batch_except_silent(msgs, idx) == msgs

(* Lines 324-325: the except clause of process_input_directory prints. *)
batch_except(msgs, idx) ==
    Append(msgs, [kind |-> "batch_error", file |-> idx])

(* The for loop of process_input_directory moves to the next file, or the
   function returns. *)
next_pc(idx, n) == IF idx < n THEN "call_convert" ELSE "returned"
next_idx(idx, n) == IF idx < n THEN idx + 1 ELSE idx

----------------------------------------------------------------------------
(* Input domains *)

SeqsUpTo(S, n) == UNION { [1..k -> S] : k \in 0..n }

(* Values of the variables an analysis does not use. *)
ParkTitle == text = <<>> /\ font_info = None /\ font_percentiles = None
             /\ title_level = 0
ParkClean == cleaned = <<>>
ParkAsm   == /\ words = <<>> /\ next_word = 0 /\ text_objects = <<>>
             /\ current_paragraph = <<>> /\ current_font = None
             /\ markdown_text = <<>>
ParkTable == raw_tables = Some(<<>>) /\ tables = <<>>
ParkBatch == /\ pdf_files = 0 /\ file_idx = 0 /\ total_pages = 0 /\ page_num = 0
             /\ md_file = <<>> /\ page_log = <<>> /\ attempts = <<>>
             /\ printed = <<>>

----------------------------------------------------------------------------
(* Specification SpecTitle: get_title_level applied to one text *)

MaxHead == 3

TitleAlphabet ==
    {"DI", "ZHANG", "CN1", "1", "A", "a", "O1", "FLP", "FRP", "DUN", "FCOLON",
     " ", "BEN"}

(* Short texts, and texts whose trimmed length is around ColonMaxLen. *)
TitleTexts ==
    SeqsUpTo(TitleAlphabet, MaxHead)
    \cup { h \o repeat("BEN", k) \o tl :
             h \in SeqsUpTo(TitleAlphabet, 1),
             k \in (ColonMaxLen - MaxHead)..ColonMaxLen,
             tl \in {<<>>, <<"FCOLON">>, <<"FCOLON", " ">>} }

TitleSizes == {0, 10, 12}
PctSizes   == {10, 12}

TitleFonts ==
    {None}
    \cup { [name |-> <<>>, size |-> s, is_bold |-> FALSE, is_italic |-> FALSE] :
             s \in TitleSizes }
    \cup { [name |-> <<"bold", "italic">>, size |-> 12, is_bold |-> TRUE,
            is_italic |-> TRUE] }

TitlePcts ==
    {None}
    \cup { p \in [h4 : PctSizes, h5 : PctSizes, h6 : PctSizes] :
             p.h4 >= p.h5 /\ p.h5 >= p.h6 }

InitTitle ==
    /\ pc = "ready"
    /\ text \in TitleTexts
    /\ font_info \in TitleFonts
    /\ font_percentiles \in TitlePcts
    /\ title_level = 0
    /\ ParkClean /\ ParkAsm /\ ParkTable /\ ParkBatch

Classify ==
    /\ pc = "ready"
    /\ title_level' = get_title_level(text, font_info, font_percentiles)
    /\ pc' = "done"
    /\ UNCHANGED << text, font_info, font_percentiles, cleaned, asmVars,
                    tableVars, batchVars >>

NextTitle == Classify

SpecTitle == InitTitle /\ [][NextTitle]_vars

(* The rule list of the classifier, read off as a specification: the index
   of the first pattern of the priority order that matches the trimmed text. *)
PatternLevel == << 1, 2, 2, 3, 3, 3, 4, 4 >>

Matching(t) == { p \in 1..Len(CHAPTER_KEYWORDS) : re_match(CHAPTER_KEYWORDS[p], t) }

FirstMatching(t) == CHOOSE p \in Matching(t) : \A q \in Matching(t) : p <= q

ColonMatches(t) == Len(t) < ColonMaxLen /\ t # <<>> /\ t[Len(t)] = "FCOLON"

FontAvailable(font, pct) == font # None /\ font.size # 0 /\ pct # None

RuleList(txt, font, pct) ==
    LET t == strip(txt)
    IN  IF Matching(t) # {} THEN PatternLevel[FirstMatching(t)]
        ELSE IF ColonMatches(t) THEN 3
        ELSE IF FontAvailable(font, pct)
             THEN (IF font.size >= pct.h4 THEN 4
                   ELSE IF font.size >= pct.h5 THEN 5
                   ELSE IF font.size >= pct.h6 THEN 6
                   ELSE 0)
        ELSE 0

(* C2, as claimed: for every text, font and percentiles the returned level is
   the result of the first-match-wins rule list, and lies in 0..6. *)
C2_LevelIsRuleList_AllTexts ==
    pc = "done" =>
        /\ title_level = RuleList(text, font_info, font_percentiles)
        /\ title_level \in 0..6

(* C2, amended: for every non-empty text the returned level is the result of
   the first-match-wins rule list (lexical patterns in priority order, then
   the colon rule, then the font-size fallback when size and percentiles are
   available, else 0); for the empty text the level is 0 whatever the font;
   the level is always in 0..6, and when a lexical or colon rule matches it
   does not depend on the font or the percentiles. *)
C2_LevelIsRuleList ==
    pc = "done" =>
        /\ text # <<>> => title_level = RuleList(text, font_info, font_percentiles)
        /\ text = <<>> => title_level = 0
        /\ title_level \in 0..6
        /\ (Matching(strip(text)) # {} \/ ColonMatches(strip(text))) =>
               title_level = get_title_level(text, None, None)

(* A state where the font fallback decided after the earlier rules failed. *)
C2_Witness ==
    /\ pc = "done"
    /\ text = <<"BEN", "FCOLON", "BEN">>
    /\ FontAvailable(font_info, font_percentiles)
    /\ title_level = 5

(* C10: the level is 0 for every empty or whitespace-only text whatever the
   font and percentiles, and 0 for every text without a lexical or colon
   match when no font information is supplied. *)
C10_BlankTextIsZero ==
    pc = "done" =>
        /\ strip(text) = <<>> => title_level = 0
        /\ (Matching(strip(text)) = {} /\ ~ColonMatches(strip(text))
            /\ font_info = None) => title_level = 0

----------------------------------------------------------------------------
(* Specification SpecFont: analyze_page_font_sizes applied to one page *)

MaxSizes == 7

FontSizes == {10, 12, 14}

SizedWords ==
    { [text |-> <<"a">>, size |-> s] : s \in FontSizes }
    \cup { [text |-> <<"a">>] }

InitFont ==
    /\ pc = "ready"
    /\ words \in SeqsUpTo(SizedWords, MaxSizes)
    /\ font_percentiles = None
    /\ text = <<>> /\ font_info = None /\ title_level = 0
    /\ next_word = 0 /\ text_objects = <<>> /\ current_paragraph = <<>>
    /\ current_font = None /\ markdown_text = <<>>
    /\ ParkClean /\ ParkTable /\ ParkBatch

Analyze ==
    /\ pc = "ready"
    /\ font_percentiles' = analyze_page_font_sizes(words)
    /\ pc' = "done"
    /\ UNCHANGED << text, font_info, title_level, cleaned, asmVars, tableVars,
                    batchVars >>

NextFont == Analyze

SpecFont == InitFont /\ [][NextFont]_vars

PositiveSizes(ws) == { i \in 1..Len(ws) : get(ws[i], "size", 0) > 0 }

(* C3: with n >= 1 positive sizes the three indices floor(n*0.95),
   floor(n*0.85), floor(n*0.75) lie in 0..n-1, no IndexError is raised and
   h4 >= h5 >= h6; with no positive size the result is None. *)
C3_IndicesInRange ==
    pc = "done" =>
        LET n == Cardinality(PositiveSizes(words))
        IN  IF n = 0 THEN font_percentiles = None
            ELSE /\ \A q \in {95, 85, 75} : percentile_index(n, q) \in 0..(n - 1)
                 /\ font_percentiles \notin {IndexError, None}
                 /\ font_percentiles.h4 >= font_percentiles.h5
                 /\ font_percentiles.h5 >= font_percentiles.h6

(* The degenerate page of a single sized word. *)
C3_Witness ==
    /\ pc = "done"
    /\ Len(words) = 1
    /\ get(words[1], "size", 0) = 12
    /\ font_percentiles = [h4 |-> 12, h5 |-> 12, h6 |-> 12]

----------------------------------------------------------------------------
(* Specification SpecClean: clean_text applied to a text, then to its result *)

MaxCleanLen == 4

CleanAlphabet == {"\n", " ", "\t", "JU", "FQUES", "a"}

InitClean ==
    /\ pc = "ready"
    /\ text \in SeqsUpTo(CleanAlphabet, MaxCleanLen)
    /\ cleaned = <<>>
    /\ font_info = None /\ font_percentiles = None /\ title_level = 0
    /\ ParkAsm /\ ParkTable /\ ParkBatch

CleanOnce ==
    /\ pc = "ready"
    /\ cleaned' = << clean_text(text) >>
    /\ pc' = "once"
    /\ UNCHANGED << titleVars, asmVars, tableVars, batchVars >>

CleanAgain ==
    /\ pc = "once"
    /\ cleaned' = Append(cleaned, clean_text(cleaned[1]))
    /\ pc' = "twice"
    /\ UNCHANGED << titleVars, asmVars, tableVars, batchVars >>

NextClean == CleanOnce \/ CleanAgain

SpecClean == InitClean /\ [][NextClean]_vars

(* C4: clean_text is idempotent: clean_text(clean_text(x)) = clean_text(x). *)
C4_Idempotent == pc = "twice" => cleaned[2] = cleaned[1]

----------------------------------------------------------------------------
(* Specification SpecAsm: process_text_objects run over one page, one loop
   iteration at a time, then convert_to_markdown *)

MaxWords == 3

(* The two fragments of the sample page: the ideographs DI CN1 ZHANG, a
   space, ZONG ZE; and BEN ZHANG GUI DING LE JI BEN YUAN ZE followed by a
   full-width period. *)
ChapterText == <<"DI", "CN1", "ZHANG", " ", "ZONG", "ZE">>
BodyText    == <<"BEN", "ZHANG", "GUI", "DING", "LE", "JI", "BEN", "YUAN", "ZE", "JU">>

AsmWords ==
    { [text |-> <<"a">>, fontname |-> f, size |-> 10] :
        f \in { <<"Arial">>, <<"Arial", "Bold">>, <<"Arial", "Oblique">>,
                <<"Arial", "BLACK", "Italic">> } }
    \cup { [text |-> <<>>, fontname |-> <<"Arial", "Bold">>, size |-> 10],
           [text |-> <<" ">>, fontname |-> <<"Arial">>],
           [text |-> <<"b">>],
           [text |-> <<"1", "DUN">>, fontname |-> <<"Arial", "Bold">>, size |-> 12],
           [text |-> <<"c", "FCOLON">>, fontname |-> <<"Arial">>, size |-> 10],
           [text |-> BodyText, fontname |-> <<"Arial", "Italic">>, size |-> 14] }

InitAsm ==
    /\ pc = "ready"
    /\ words \in SeqsUpTo(AsmWords, MaxWords)
    /\ font_percentiles = None
    /\ next_word = 0
    /\ text_objects = <<>>
    /\ current_paragraph = <<>>
    /\ current_font = None
    /\ markdown_text = <<>>
    /\ text = <<>> /\ font_info = None /\ title_level = 0
    /\ ParkClean /\ ParkTable /\ ParkBatch

(* Lines 157-162: the locals are set and the page's percentiles computed. *)
StartPage ==
    /\ pc = "ready"
    /\ font_percentiles' = analyze_page_font_sizes(words)
    /\ next_word' = 1
    /\ text_objects' = <<>>
    /\ current_paragraph' = <<>>
    /\ current_font' = None
    /\ pc' = "loop"
    /\ UNCHANGED << text, font_info, title_level, cleaned, words, markdown_text,
                    tableVars, batchVars >>

(* Lines 164-191: one iteration of the loop. *)
LoopStep ==
    /\ pc = "loop"
    /\ next_word <= Len(words)
    /\ LET st == loop_body([text_objects |-> text_objects,
                            current_paragraph |-> current_paragraph,
                            current_font |-> current_font],
                           words[next_word], font_percentiles)
       IN  /\ text_objects' = st.text_objects
           /\ current_paragraph' = st.current_paragraph
           /\ current_font' = st.current_font
    /\ next_word' = next_word + 1
    /\ UNCHANGED << pc, text, font_info, font_percentiles, title_level, cleaned,
                    words, markdown_text, tableVars, batchVars >>

(* Lines 193-201: the final flush and the return. *)
EndLoop ==
    /\ pc = "loop"
    /\ next_word > Len(words)
    /\ text_objects' = last_paragraph([text_objects |-> text_objects,
                                       current_paragraph |-> current_paragraph,
                                       current_font |-> current_font])
    /\ current_paragraph' = <<>>
    /\ pc' = "assembled"
    /\ UNCHANGED << text, font_info, font_percentiles, title_level, cleaned,
                    words, next_word, current_font, markdown_text, tableVars,
                    batchVars >>

Render ==
    /\ pc = "assembled"
    /\ markdown_text' = convert_to_markdown(text_objects)
    /\ pc' = "rendered"
    /\ UNCHANGED << text, font_info, font_percentiles, title_level, cleaned,
                    words, next_word, text_objects, current_paragraph,
                    current_font, tableVars, batchVars >>

NextAsm == StartPage \/ LoopStep \/ EndLoop \/ Render

SpecAsm == InitAsm /\ [][NextAsm]_vars

(* A segmentation of the first k words into consecutive groups is given by
   its cuts: c is a cut when a group ends at word c and another begins. *)
Cuts(k) == SUBSET (1..(k - 1))

NumGroups(C, k) == IF k = 0 THEN 0 ELSE 1 + Cardinality(C)

GroupOf(C, i) == 1 + Cardinality({ c \in C : c < i })

GroupLo(C, k, g) == CHOOSE i \in 1..k : GroupOf(C, i) = g /\ \A j \in 1..(i - 1) : GroupOf(C, j) < g

GroupHi(C, k, g) == CHOOSE i \in 1..k : GroupOf(C, i) = g /\ \A j \in (i + 1)..k : GroupOf(C, j) > g

WordTexts(lo, hi) == [ j \in 1..(hi - lo + 1) |-> words[lo + j - 1].text ]

IsHeading(b) == b.type[1] = "h"

(* Block b is the heading made of word lo alone, or the paragraph made of
   words lo..hi joined by single spaces. *)
BlockHolds(b, lo, hi) ==
    \/ IsHeading(b) /\ lo = hi /\ b.text = words[lo].text
    \/ b.type = Paragraph /\ b.text = join(<<" ">>, WordTexts(lo, hi))

(* The paragraph block's style is that of the first word of its group. *)
StyleFromOpener(b, lo) ==
    b.type = Paragraph => b.font_info = get_font_info(words[lo])

(* Blocks, followed by the accumulator acc, hold exactly words 1..k in order
   under segmentation C. *)
AccountedBy(C, blocks, acc, k) ==
    /\ NumGroups(C, k) = Len(blocks) + (IF acc # <<>> THEN 1 ELSE 0)
    /\ \A g \in 1..Len(blocks) :
           BlockHolds(blocks[g], GroupLo(C, k, g), GroupHi(C, k, g))
    /\ acc # <<>> =>
           acc = WordTexts(GroupLo(C, k, NumGroups(C, k)), k)

(* C1: after any prefix of the words the emitted blocks followed by the
   accumulator hold exactly that prefix, in order, each word once (a heading
   block of its own, or one space-joined component of one paragraph block);
   at the end the blocks hold all the words; no words give no blocks, and a
   single heading word gives exactly one heading block. *)
C1_EveryFragmentOnce ==
    /\ pc = "loop" =>
           \E C \in Cuts(next_word - 1) :
               AccountedBy(C, text_objects, current_paragraph, next_word - 1)
    /\ pc \in {"assembled", "rendered"} =>
           /\ \E C \in Cuts(Len(words)) :
                  AccountedBy(C, text_objects, <<>>, Len(words))
           /\ words = <<>> => text_objects = <<>>
           /\ ( /\ Len(words) = 1
                /\ get_title_level(words[1].text, get_font_info(words[1]),
                                   font_percentiles) > 0 )
              => Len(text_objects) = 1 /\ IsHeading(text_objects[1])

(* A paragraph of two words followed by a heading. *)
C1_Witness ==
    /\ pc = "assembled"
    /\ Len(words) = 3
    /\ Len(text_objects) = 2
    /\ text_objects[1].type = Paragraph
    /\ text_objects[1].text = <<"a", " ", "b">>
    /\ text_objects[2].type = <<"h", "2">>
    /\ text_objects[2].text = <<"1", "DUN">>

(* The rendering the claim describes: bold markers, then italic markers
   around them. *)
Wrapped(txt, font) ==
    LET bold == IF font.is_bold THEN <<"*", "*">> \o txt \o <<"*", "*">> ELSE txt
    IN  IF font.is_italic THEN <<"*">> \o bold \o <<"*">> ELSE bold

HeadingLine(b) == repeat("#", int(b.type[2])) \o <<" ">> \o b.text \o <<"\n">>

RECURSIVE RenderedAlways(_)
RenderedAlways(blocks) ==
    IF blocks = <<>> THEN <<>>
    ELSE (IF IsHeading(Head(blocks)) THEN HeadingLine(Head(blocks))
          ELSE Wrapped(Head(blocks).text, Head(blocks).font_info) \o <<"\n", "\n">>)
         \o RenderedAlways(Tail(blocks))

RECURSIVE RenderedNonEmpty(_)
RenderedNonEmpty(blocks) ==
    IF blocks = <<>> THEN <<>>
    ELSE (IF IsHeading(Head(blocks)) THEN HeadingLine(Head(blocks))
          ELSE IF Head(blocks).text = <<>> THEN <<"\n", "\n">>
          ELSE Wrapped(Head(blocks).text, Head(blocks).font_info) \o <<"\n", "\n">>)
         \o RenderedNonEmpty(Tail(blocks))

(* Every paragraph, emitted or accumulating, carries its opener's style. *)
StylesFromOpeners ==
    /\ pc = "loop" =>
           \E C \in Cuts(next_word - 1) :
               /\ AccountedBy(C, text_objects, current_paragraph, next_word - 1)
               /\ \A g \in 1..Len(text_objects) :
                      StyleFromOpener(text_objects[g], GroupLo(C, next_word - 1, g))
               /\ current_paragraph # <<>> =>
                      current_font =
                          get_font_info(words[GroupLo(C, next_word - 1,
                                                      NumGroups(C, next_word - 1))])
    /\ pc \in {"assembled", "rendered"} =>
           \E C \in Cuts(Len(words)) :
               /\ AccountedBy(C, text_objects, <<>>, Len(words))
               /\ \A g \in 1..Len(text_objects) :
                      StyleFromOpener(text_objects[g], GroupLo(C, Len(words), g))

(* C9, as claimed: a paragraph's style is that of its opening fragment, and
   every paragraph is rendered wrapped in the bold markers if its style is
   bold and then in the italic markers if it is italic; headings are never
   wrapped. *)
C9_StyleFromOpener_AlwaysWrapped ==
    /\ StylesFromOpeners
    /\ pc = "rendered" => markdown_text = RenderedAlways(text_objects)

(* C9, amended: a paragraph's style is that of its opening fragment, later
   fragments never change it; a paragraph whose text is not empty is
   rendered wrapped in the bold markers if its style is bold and then in the
   italic markers if it is italic (italic outside bold); a paragraph whose
   text is empty is rendered without markers; headings are never wrapped. *)
C9_StyleFromOpener ==
    /\ StylesFromOpeners
    /\ pc = "rendered" => markdown_text = RenderedNonEmpty(text_objects)

(* A bold italic opener followed by a plain word, then a heading: one
   paragraph, rendered with the italic markers outside the bold markers. *)
C9_Witness ==
    /\ pc = "rendered"
    /\ Len(words) = 3
    /\ get_font_info(words[1]).is_bold /\ get_font_info(words[1]).is_italic
    /\ ~get_font_info(words[2]).is_bold /\ ~get_font_info(words[2]).is_italic
    /\ Len(text_objects) = 2
    /\ text_objects[1].type = Paragraph
    /\ SubSeq(markdown_text, 1, 11)
           = <<"*", "*", "*", "a", " ", "a", "*", "*", "*", "\n", "\n">>

----------------------------------------------------------------------------
(* Specification SpecTables: extract_tables applied to one page's tables *)

MaxRows == 2
MaxCols == 2

Cells == { Missing, Some(<<>>), Some(<<"A">>) }

Rows == { Missing } \cup { Some(cs) : cs \in SeqsUpTo(Cells, MaxCols) }

(* [["A","B"],["1","2"]] and [[],["1","2"]] *)
SampleTable ==
    Some(<< Some(<< Some(<<"A">>), Some(<<"B">>) >>),
            Some(<< Some(<<"1">>), Some(<<"2">>) >>) >>)
SampleNoHeader ==
    Some(<< Some(<<>>), Some(<< Some(<<"1">>), Some(<<"2">>) >>) >>)

RawTables ==
    { Missing } \cup { Some(rs) : rs \in SeqsUpTo(Rows, MaxRows) }
    \cup { SampleTable, SampleNoHeader }

(* The page's tables: none at all, or a table of RawTables alone, after a
   sample table, or before one. *)
TableLists ==
    { Missing, Some(<<>>) }
    \cup { Some(before \o <<t>> \o after) :
             before \in { <<>>, <<SampleTable>> },
             t \in RawTables,
             after \in { <<>>, <<SampleTable>> } }

InitTables ==
    /\ pc = "ready"
    /\ raw_tables \in TableLists
    /\ tables = <<>>
    /\ ParkTitle /\ ParkClean /\ ParkAsm /\ ParkBatch

Transcribe ==
    /\ pc = "ready"
    /\ tables' = extract_tables(raw_tables)
    /\ pc' = "done"
    /\ UNCHANGED << titleVars, cleaned, asmVars, raw_tables, batchVars >>

NextTables == Transcribe

SpecTables == InitTables /\ [][NextTables]_vars

(* s.split('\n') *)
RECURSIVE SplitLines(_)
SplitLines(s) ==
    IF \A i \in 1..Len(s) : s[i] # "\n" THEN << s >>
    ELSE LET n == CHOOSE i \in 1..Len(s) : s[i] = "\n" /\ \A j \in 1..(i - 1) : s[j] # "\n"
         IN  << SubSeq(s, 1, n - 1) >> \o SplitLines(SubSeq(s, n + 1, Len(s)))

(* A table with at least one row whose first row has at least one cell. *)
HasHeader(t) == ~t.is_none /\ t.v # <<>> /\ ~t.v[1].is_none /\ t.v[1].v # <<>>

(* A row as the claim renders it: the cells between pipes, a missing or
   empty cell as the empty string. *)
ClaimedRow(cells) ==
    <<"|", " ">>
    \o join(<<" ", "|", " ">>,
            [ i \in 1..Len(cells) |-> IF cells[i].is_none THEN <<>> ELSE cells[i].v ])
    \o <<" ", "|">>

ClaimedSeparator(k) ==
    <<"|", " ">> \o join(<<" ", "|", " ">>, [ i \in 1..k |-> <<"-", "-", "-">> ])
    \o <<" ", "|">>

RECURSIVE ClaimedBody(_)
ClaimedBody(rows) ==
    IF rows = <<>> THEN <<>>
    ELSE (IF Head(rows).is_none \/ Head(rows).v = <<>> THEN <<>>
          ELSE << ClaimedRow(Head(rows).v) >>)
         \o ClaimedBody(Tail(rows))

(* The lines of the combined result: each table with a header gives its
   lines, and a blank line stands between two such tables. *)
RECURSIVE ClaimedLines(_)
ClaimedLines(tbls) ==
    IF tbls = <<>> THEN <<>>
    ELSE IF ~HasHeader(Head(tbls)) THEN ClaimedLines(Tail(tbls))
    ELSE LET t == Head(tbls).v
             rest == ClaimedLines(Tail(tbls))
         IN  << ClaimedRow(t[1].v), ClaimedSeparator(Len(t[1].v)) >>
             \o ClaimedBody(Tail(t))
             \o (IF rest = <<>> THEN <<>> ELSE << <<>> >> \o rest)

(* C6: a table with no rows or an empty or missing first row gives nothing;
   any other gives one header line, one separator of as many '---' columns
   as the header has cells, then one line per later non-missing, non-empty
   row in order, missing cells as empty strings; with no such table the
   combined result is empty. *)
C6_TableLines ==
    pc = "done" =>
        LET tbls == IF raw_tables.is_none THEN <<>> ELSE raw_tables.v
        IN  IF \A i \in 1..Len(tbls) : ~HasHeader(tbls[i])
            THEN tables = <<>>
            ELSE SplitLines(tables) = ClaimedLines(tbls)

(* The sample table alone: header, separator "| --- | --- |", one row. *)
C6_Witness ==
    /\ pc = "done"
    /\ raw_tables = Some(<< SampleTable >>)
    /\ SplitLines(tables)
         = << <<"|", " ", "A", " ", "|", " ", "B", " ", "|">>,
              <<"|", " ", "-", "-", "-", " ", "|", " ", "-", "-", "-", " ", "|">>,
              <<"|", " ", "1", " ", "|", " ", "2", " ", "|">> >>

----------------------------------------------------------------------------
(* Specification Spec: process_input_directory converting the discovered
   files one after the other, each page by page *)

MaxFiles == 2
MaxPages == 2

SampleSizes == {10, 12}

(* The sample page: the chapter line and the body sentence, both in a
   regular font, in every assignment of sizes (or none). *)
SampleWord(txt, size) ==
    IF size = 0 THEN [text |-> txt, fontname |-> <<"Arial">>]
    ELSE [text |-> txt, fontname |-> <<"Arial">>, size |-> size]

SamplePages ==
    { [words |-> << SampleWord(ChapterText, s1), SampleWord(BodyText, s2) >>,
       raw_tables |-> Some(<<>>)] :
        s1 \in SampleSizes \cup {0}, s2 \in SampleSizes \cup {0} }

Pages ==
    SamplePages
    \cup { [words |-> <<>>, raw_tables |-> Some(<<>>)],
           [words |-> <<>>, raw_tables |-> Some(<< SampleTable >>)],
           [words |-> <<>>, raw_tables |-> Some(<< SampleNoHeader >>)],
           [words |-> << [text |-> <<"b">>] >>, raw_tables |-> Some(<< SampleTable >>)],
           [words |-> << [text |-> <<>>] >>, raw_tables |-> Missing] }

Init ==
    /\ pc = "start"
    /\ pdf_files \in 0..MaxFiles
    /\ file_idx = 0 /\ total_pages = 0 /\ page_num = 0
    /\ md_file = <<>> /\ page_log = <<>> /\ attempts = <<>> /\ printed = <<>>
    /\ ParkTitle /\ ParkClean /\ ParkAsm /\ ParkTable

pageVars == << words, next_word, text_objects, current_paragraph, current_font,
               markdown_text, raw_tables, tables, font_percentiles >>

(* Lines 310-318: the directory is listed. *)
ScanInput ==
    /\ pc = "start"
    /\ IF pdf_files = 0
       THEN /\ printed' = Append(printed, [kind |-> "none_found", file |-> 0])
            /\ pc' = "returned"
            /\ file_idx' = 0
       ELSE /\ printed' = Append(printed, [kind |-> "found", file |-> 0])
            /\ pc' = "call_convert"
            /\ file_idx' = 1
    /\ UNCHANGED << text, font_info, title_level, cleaned, pageVars, pdf_files,
                    total_pages, page_num, md_file, page_log, attempts >>

(* Lines 259-260 and 324-325: the path does not exist; FileNotFoundError is
   raised before the try block and caught by the batch loop. *)
ConvertMissing ==
    /\ pc = "call_convert"
    /\ attempts' = Append(attempts, [file |-> file_idx, outcome |-> "missing"])
    /\ printed' = batch_except(printed, file_idx)
    /\ pc' = next_pc(file_idx, pdf_files)
    /\ file_idx' = next_idx(file_idx, pdf_files)
    /\ UNCHANGED << text, font_info, title_level, cleaned, pageVars, pdf_files,
                    total_pages, page_num, md_file, page_log >>

(* Lines 266 or 271 raise (an unreadable document, an unwritable output):
   the except clause of convert_pdf_to_md prints and re-raises, the batch
   loop catches. *)
ConvertOpenFails ==
    /\ pc = "call_convert"
    /\ attempts' = Append(attempts, [file |-> file_idx, outcome |-> "error"])
    /\ printed' = batch_except(convert_except(printed, file_idx), file_idx)
    /\ pc' = next_pc(file_idx, pdf_files)
    /\ file_idx' = next_idx(file_idx, pdf_files)
    /\ UNCHANGED << text, font_info, title_level, cleaned, pageVars, pdf_files,
                    total_pages, page_num, md_file, page_log >>

(* Lines 266-274: the document and the output file are opened and the title
   is written. *)
ConvertOpen ==
    /\ pc = "call_convert"
    /\ \E n \in 0..MaxPages : total_pages' = n
    /\ attempts' = Append(attempts, [file |-> file_idx, outcome |-> "running"])
    /\ printed' = printed \o << [kind |-> "start", file |-> file_idx],
                                [kind |-> "total_pages", file |-> file_idx] >>
    /\ md_file' = << title_line(file_idx) >>
    /\ page_log' = <<>>
    /\ page_num' = 0
    /\ pc' = "pages"
    /\ UNCHANGED << text, font_info, title_level, cleaned, pageVars, pdf_files,
                    file_idx >>

(* Lines 277-300: one iteration of the page loop. *)
ConvertPage ==
    /\ pc = "pages"
    /\ page_num < total_pages
    /\ \E page \in Pages :
         LET objs == process_text_objects(page.words)
             md   == convert_to_markdown(objs)
             tbls == extract_tables(page.raw_tables)
         IN  /\ words' = page.words
             /\ font_percentiles' = analyze_page_font_sizes(page.words)
             /\ next_word' = Len(page.words) + 1
             /\ text_objects' = objs
             /\ current_paragraph' = <<>>
             /\ current_font' = None
             /\ markdown_text' = md
             /\ raw_tables' = page.raw_tables
             /\ tables' = tbls
             /\ md_file' = md_file \o page_writes(page_num, md, tbls)
             /\ page_log' = Append(page_log,
                                   [words |-> page.words,
                                    raw_tables |-> page.raw_tables,
                                    text_objects |-> objs,
                                    markdown_text |-> md,
                                    tables |-> tbls])
    /\ page_num' = page_num + 1
    /\ UNCHANGED << pc, text, font_info, title_level, cleaned, pdf_files,
                    file_idx, total_pages, attempts, printed >>

(* The extraction of a page raises: both except clauses run. *)
ConvertPageFails ==
    /\ pc = "pages"
    /\ page_num < total_pages
    /\ attempts' = [attempts EXCEPT ![Len(attempts)].outcome = "error"]
    /\ printed' = batch_except(convert_except(printed, file_idx), file_idx)
    /\ pc' = next_pc(file_idx, pdf_files)
    /\ file_idx' = next_idx(file_idx, pdf_files)
    /\ UNCHANGED << text, font_info, title_level, cleaned, pageVars, pdf_files,
                    total_pages, page_num, md_file, page_log >>

(* Line 302: the loop is over, the conversion returns. *)
ConvertDone ==
    /\ pc = "pages"
    /\ page_num = total_pages
    /\ attempts' = [attempts EXCEPT ![Len(attempts)].outcome = "ok"]
    /\ printed' = Append(printed, [kind |-> "done", file |-> file_idx])
    /\ pc' = next_pc(file_idx, pdf_files)
    /\ file_idx' = next_idx(file_idx, pdf_files)
    /\ UNCHANGED << text, font_info, title_level, cleaned, pageVars, pdf_files,
                    total_pages, page_num, md_file, page_log >>

Next ==
    \/ ScanInput
    \/ ConvertMissing
    \/ ConvertOpenFails
    \/ ConvertOpen
    \/ ConvertPage
    \/ ConvertPageFails
    \/ ConvertDone

Spec == Init /\ [][Next]_vars

(* The page produced at least one block, or at least one table with a
   header. *)
ProducedBlocks(e) == e.text_objects # <<>>
ProducedTables(e) ==
    ~e.raw_tables.is_none /\ \E i \in 1..Len(e.raw_tables.v) : HasHeader(e.raw_tables.v[i])

(* The section the claim gives page k (1-based) of the log: the page-number
   heading, the rendered blocks, the tables, the rule; nothing for a page
   without content. *)
ClaimedSection(e, k) ==
    IF ProducedBlocks(e) \/ ProducedTables(e)
    THEN << page_heading(k - 1) >>
         \o (IF ProducedBlocks(e) THEN << e.markdown_text >> ELSE <<>>)
         \o (IF ProducedTables(e) THEN << e.tables \o <<"\n", "\n">> >> ELSE <<>>)
         \o << page_rule >>
    ELSE <<>>

RECURSIVE ClaimedSections(_, _)
ClaimedSections(log, k) ==
    IF k > Len(log) THEN <<>>
    ELSE ClaimedSection(log[k], k) \o ClaimedSections(log, k + 1)

IsPageHeading(w) == \E n \in 0..MaxPages : w = page_heading(n)

PageHeadings == SelectSeq(md_file, IsPageHeading)

(* C7: after the title the output holds, for the pages processed so far in
   page order, the section of each page that produced a block or a table
   (heading, blocks, tables, rule) and nothing for the others; the page
   numbers written are strictly increasing, so each page appears at most
   once. *)
C7_SectionsInPageOrder ==
    md_file # <<>> =>
        /\ \E f \in 1..Len(attempts) : Head(md_file) = title_line(f)
        /\ Tail(md_file) = ClaimedSections(page_log, 1)
        /\ \A i \in 1..Len(PageHeadings), j \in 1..Len(PageHeadings) :
               i < j => int(PageHeadings[i][6]) < int(PageHeadings[j][6])
        /\ \A k \in 1..Len(page_log) :
               (\E i \in 1..Len(md_file) : md_file[i] = page_heading(k - 1))
               <=> (ProducedBlocks(page_log[k]) \/ ProducedTables(page_log[k]))

(* A first page without content, then a page with a block and a table: only
   the second page's section follows the title. *)
C7_Witness ==
    /\ Len(page_log) = 2
    /\ ~ProducedBlocks(page_log[1]) /\ ~ProducedTables(page_log[1])
    /\ ProducedBlocks(page_log[2]) /\ ProducedTables(page_log[2])
    /\ Len(md_file) = 5
    /\ md_file[2] = page_heading(1)
    /\ md_file[5] = page_rule

Failed(a) == a.outcome \in {"missing", "error"}

(* C8: the conversions attempted are those of files 1, 2, ... in list
   order, each once; when the batch returns every discovered file has been
   attempted, whichever of them failed; and every failed attempt has its
   message from the batch loop's except clause, one per failure. *)
C8_FailuresIsolated ==
    /\ \A i \in 1..Len(attempts) : attempts[i].file = i
    /\ Len(attempts) <= pdf_files
    /\ pc = "returned" => Len(attempts) = pdf_files
    /\ pc = "call_convert" => Len(attempts) = file_idx - 1
    /\ \A i \in 1..Len(attempts) :
           Failed(attempts[i]) <=>
               \E m \in 1..Len(printed) :
                   printed[m] = [kind |-> "batch_error", file |-> i]
    /\ Cardinality({ m \in 1..Len(printed) : printed[m].kind = "batch_error" })
           = Cardinality({ i \in 1..Len(attempts) : Failed(attempts[i]) })

(* The first file is missing and the second is converted all the same. *)
C8_Witness ==
    /\ pc = "returned"
    /\ pdf_files = 2
    /\ attempts = << [file |-> 1, outcome |-> "missing"],
                     [file |-> 2, outcome |-> "ok"] >>

IsSamplePage(e) ==
    /\ Len(e.words) = 2
    /\ e.words[1].text = ChapterText /\ e.words[2].text = BodyText
    /\ \A i \in 1..2 : ~get_font_info(e.words[i]).is_bold
                       /\ ~get_font_info(e.words[i]).is_italic
    /\ ~ProducedTables(e)

(* C5: the sample page, whatever the sizes of its two fragments, gives the
   blocks Heading(1, chapter line), Paragraph(body sentence), and its
   page-number heading is written. *)
C5_SamplePageBlocks ==
    \A k \in 1..Len(page_log) :
        IsSamplePage(page_log[k]) =>
            /\ Len(page_log[k].text_objects) = 2
            /\ page_log[k].text_objects[1].type = <<"h", "1">>
            /\ page_log[k].text_objects[1].text = ChapterText
            /\ page_log[k].text_objects[2].type = Paragraph
            /\ page_log[k].text_objects[2].text = BodyText
            /\ \E i \in 1..Len(md_file) : md_file[i] = page_heading(k - 1)

====
